---------------------------- MODULE Spec2Model ----------------------------
(***************************************************************************)
(* A model of the Web3StudentTalk chat-relay bot: the ConversationManager  *)
(* (src/src/managers/conversation.py), the Config store                    *)
(* (src/src/config/config.py), the Cohere orchestrator                     *)
(* (src/src/logic/cohere.py) and the slash commands                        *)
(* (src/src/commands/chat.py).                                             *)
(*                                                                         *)
(* Text that the code parses, strips or formats (config values, JSON       *)
(* lists, user ids typed into a command) is a sequence of one-character    *)
(* strings, so that the conversions are computed and not assumed.  Text    *)
(* that the code only stores and copies (chat messages, prompts) is an     *)
(* atomic string.                                                          *)
(***************************************************************************)
EXTENDS Integers, Sequences, FiniteSets, TLC

VARIABLES
    conversations,       \* ConversationManager.conversations: dict user -> list of messages
    ephemeral_settings,  \* ConversationManager.ephemeral_settings: dict user -> bool
    view,                \* the list object a caller got from get_conversation
    added,               \* history variable: per user, the messages passed to add_message since the user's list was last replaced
    config,              \* the Config dataclass instance (bot.config)
    config_file,         \* config/config.ini as configparser sees it
    system_prompt,       \* CohereLogic.system_prompt
    prompt_file,         \* assistant/prompt.json
    tasks,               \* command handlers suspended at an await
    last                 \* the most recent call or handler step and what its caller saw

vars == <<conversations, ephemeral_settings, view, added, config, config_file,
          system_prompt, prompt_file, tasks, last>>

cmVars == <<conversations, ephemeral_settings, view, added>>
cfgVars == <<config, config_file>>
promptVars == <<system_prompt, prompt_file>>

Range(s) == {s[i] : i \in DOMAIN s}

(***************************************************************************)
(* Character-level text                                                    *)
(***************************************************************************)

Digits == <<"0", "1", "2", "3", "4", "5", "6", "7", "8", "9">>

IsDigit(c) == c \in Range(Digits)

DigitVal(c) == (CHOOSE i \in DOMAIN Digits : Digits[i] = c) - 1

\* str.strip(): whitespace removed at both ends
IsSpace(c) == c \in {" ", "\t", "\n"}

RECURSIVE LStrip(_)
LStrip(s) == IF s # <<>> /\ IsSpace(Head(s)) THEN LStrip(Tail(s)) ELSE s

RECURSIVE RStrip(_)
RStrip(s) ==
    IF s # <<>> /\ IsSpace(s[Len(s)]) THEN RStrip(SubSeq(s, 1, Len(s) - 1)) ELSE s

Strip(s) == RStrip(LStrip(s))

AllDigits(s) == s # <<>> /\ \A i \in DOMAIN s : IsDigit(s[i])

RECURSIVE DigitsVal(_)
DigitsVal(s) ==
    IF s = <<>> THEN 0
    ELSE 10 * DigitsVal(SubSeq(s, 1, Len(s) - 1)) + DigitVal(s[Len(s)])

RECURSIVE IntToChars(_)
IntToChars(n) ==
    IF n < 10 THEN <<Digits[n + 1]>>
    ELSE IntToChars(n \div 10) \o <<Digits[(n % 10) + 1]>>

\* Python's int(text) on unsigned decimal text: surrounding whitespace is
\* accepted, anything else raises ValueError.
ParseInt(s) ==
    LET t == Strip(s)
    IN  IF AllDigits(t) THEN [ok |-> TRUE, val |-> DigitsVal(t)]
        ELSE [ok |-> FALSE, val |-> 0]

\* text.split(sep) for a one-character separator
RECURSIVE Split(_, _)
Split(s, sep) ==
    IF \A i \in DOMAIN s : s[i] # sep THEN <<s>>
    ELSE LET k == CHOOSE i \in DOMAIN s :
                      s[i] = sep /\ \A j \in 1..(i - 1) : s[j] # sep
         IN  <<SubSeq(s, 1, k - 1)>> \o Split(SubSeq(s, k + 1, Len(s)), sep)

\* A JSON number as json.loads accepts it: digits without a leading zero
JsonInt(s) == AllDigits(s) /\ (Len(s) > 1 => s[1] # "0")

\* A JSON string as json.loads accepts it (no escapes, no comma inside)
JsonString(s) ==
    /\ Len(s) >= 2 /\ s[1] = "\"" /\ s[Len(s)] = "\""
    /\ \A i \in 2..(Len(s) - 1) : s[i] \notin {"\"", "\\"}

\* json.loads on text made of digits, quoted strings, brackets, commas and
\* spaces: a list whose items are integers or strings (a string is kept as
\* its characters), a bare integer (a scalar), or a JSONDecodeError.
JsonLoads(s) ==
    LET t == Strip(s)
        inner == Strip(SubSeq(t, 2, Len(t) - 1))
        items == Split(inner, ",")
        err == [kind |-> "error", items |-> <<>>]
        Value(item) == IF JsonInt(item) THEN DigitsVal(item)
                       ELSE SubSeq(item, 2, Len(item) - 1)
    IN  IF Len(t) >= 2 /\ t[1] = "[" /\ t[Len(t)] = "]"
        THEN IF inner = <<>> THEN [kind |-> "list", items |-> <<>>]
             ELSE IF \A i \in DOMAIN items :
                         JsonInt(Strip(items[i])) \/ JsonString(Strip(items[i]))
                  THEN [kind |-> "list",
                        items |-> [i \in DOMAIN items |-> Value(Strip(items[i]))]]
                  ELSE err
        ELSE IF JsonInt(t) THEN [kind |-> "scalar", items |-> <<>>]
        ELSE err

\* json.dumps of a list of non-negative integers: "[1, 2]"
RECURSIVE JoinInts(_)
JoinInts(l) ==
    IF l = <<>> THEN <<>>
    ELSE IF Len(l) = 1 THEN IntToChars(l[1])
    ELSE IntToChars(l[1]) \o <<",", " ">> \o JoinInts(Tail(l))

JsonDumps(l) == <<"[">> \o JoinInts(l) \o <<"]">>

(***************************************************************************)
(* Config store: src/src/config/config.py                                  *)
(***************************************************************************)

\* ConfigParser.optionxform: option names are lower-cased before any lookup
optionxform(key) ==
    CASE key = "COHERE_API_KEY" -> "cohere_api_key"
      [] key = "DISCORD_TOKEN" -> "discord_token"
      [] key = "MASTER_ADMIN_ID" -> "master_admin_id"
      [] key = "ADMIN_USER_IDS" -> "admin_user_ids"
      [] key = "EXTRA" -> "extra"
      [] key = "BOGUS" -> "bogus"
      [] OTHER -> key

\* The settings update_config mirrors in memory (config.py lines 100-116)
RecognizedKeys == {"COHERE_API_KEY", "DISCORD_TOKEN", "MASTER_ADMIN_ID", "ADMIN_USER_IDS"}

\* BasicInterpolation.before_set: "%%" is an escaped percent sign; a value
\* with any other "%" is refused with ValueError.  (No value here holds
\* a "%(name)s" reference.)
RECURSIVE RemovePercentPairs(_)
RemovePercentPairs(s) ==
    IF Len(s) < 2 THEN s
    ELSE IF s[1] = "%" /\ s[2] = "%" THEN RemovePercentPairs(SubSeq(s, 3, Len(s)))
    ELSE <<s[1]>> \o RemovePercentPairs(Tail(s))

InterpolationOk(value) == "%" \notin Range(RemovePercentPairs(value))

\* BasicInterpolation.before_get: what a lookup returns for a stored value
RECURSIVE Interpolate(_)
Interpolate(s) ==
    IF Len(s) < 2 THEN s
    ELSE IF s[1] = "%" /\ s[2] = "%" THEN <<"%">> \o Interpolate(SubSeq(s, 3, Len(s)))
    ELSE <<s[1]>> \o Interpolate(Tail(s))

\* config.read(path): the DEFAULT section, each value stripped
ParserRead(file) == [k \in DOMAIN file.options |-> Strip(file.options[k])]

\* config['DEFAULT'][key] and config['DEFAULT'].get(key, fallback)
ParserGet(options, key) == Interpolate(options[optionxform(key)])

ParserHas(options, key) == optionxform(key) \in DOMAIN options

EmptyJsonList == <<"[", "]">>

NoConfig ==
    [cohere_api_key |-> <<>>, discord_token |-> <<>>, master_admin_id |-> 0,
     admin_user_ids |-> <<>>]

\* Config.load: err is "" on success, else the exception raised
load(file) ==
    IF ~file.exists THEN [err |-> "FileNotFoundError", cfg |-> NoConfig]
    ELSE
    LET options == ParserRead(file)
        admin_ids_str == IF ParserHas(options, "ADMIN_USER_IDS")
                         THEN ParserGet(options, "ADMIN_USER_IDS")
                         ELSE EmptyJsonList
        admin_ids == JsonLoads(admin_ids_str)
        master == ParseInt(ParserGet(options, "MASTER_ADMIN_ID"))
    IN  IF admin_ids.kind # "list" THEN [err |-> "ValueError", cfg |-> NoConfig]
        ELSE IF \E k \in {"COHERE_API_KEY", "DISCORD_TOKEN", "MASTER_ADMIN_ID"} :
                    ~ParserHas(options, k)
        THEN [err |-> "ValueError", cfg |-> NoConfig]
        ELSE IF ~master.ok THEN [err |-> "ValueError", cfg |-> NoConfig]
        ELSE [err |-> "",
              cfg |-> [cohere_api_key |-> ParserGet(options, "COHERE_API_KEY"),
                       discord_token |-> ParserGet(options, "DISCORD_TOKEN"),
                       master_admin_id |-> master.val,
                       admin_user_ids |-> admin_ids.items]]

\* An is_admin that looks at the admin list only
is_admin_members_only(cfg, user_id) == user_id \in Range(cfg.admin_user_ids)

\* Config.is_admin
is_admin(cfg, user_id) ==
    user_id = cfg.master_admin_id \/ user_id \in Range(cfg.admin_user_ids)

\* config['DEFAULT'][key] = value followed by config.write(f): the whole
\* section is written back, the other values as they were read
ParserSetAndWrite(options, key, value) ==
    [exists |-> TRUE,
     options |-> [k \in DOMAIN options |->
                     IF k = optionxform(key) THEN value ELSE options[k]]]

\* The in-memory mirror of update_config (config.py lines 100-116):
\* err is "" or the exception the branch raises
UpdateMemory(cfg, key, value) ==
    LET ids == JsonLoads(value)
        id == ParseInt(value)
    IN  CASE key = "ADMIN_USER_IDS" ->
                IF ids.kind = "list"
                THEN [err |-> "", cfg |-> [cfg EXCEPT !.admin_user_ids = ids.items]]
                ELSE [err |-> "ValueError", cfg |-> cfg]
          [] key = "MASTER_ADMIN_ID" ->
                IF id.ok
                THEN [err |-> "", cfg |-> [cfg EXCEPT !.master_admin_id = id.val]]
                ELSE [err |-> "ValueError", cfg |-> cfg]
          [] key = "DISCORD_TOKEN" ->
                [err |-> "", cfg |-> [cfg EXCEPT !.discord_token = value]]
          [] key = "COHERE_API_KEY" ->
                [err |-> "", cfg |-> [cfg EXCEPT !.cohere_api_key = value]]
          [] OTHER -> [err |-> "", cfg |-> cfg]

\* Config.update_config: err is "" on success, "FileNotFoundError" when the
\* file is gone, and "RuntimeError" for every exception raised inside the
\* try block; cause names that exception.
update_config(cfg, file, key, value) ==
    IF ~file.exists
    THEN [err |-> "FileNotFoundError", cause |-> "", cfg |-> cfg, file |-> file]
    ELSE
    LET options == ParserRead(file)
        written == ParserSetAndWrite(options, key, value)
        mem == UpdateMemory(cfg, key, value)
    IN  IF ~ParserHas(options, key)
        THEN [err |-> "RuntimeError", cause |-> "KeyError", cfg |-> cfg, file |-> file]
        ELSE IF ~InterpolationOk(value)
        THEN [err |-> "RuntimeError", cause |-> "ValueError", cfg |-> cfg, file |-> file]
        ELSE IF mem.err # ""
        THEN [err |-> "RuntimeError", cause |-> mem.err, cfg |-> cfg, file |-> written]
        ELSE [err |-> "", cause |-> "", cfg |-> mem.cfg, file |-> written]

(***************************************************************************)
(* Identities, texts and the state at start-up                             *)
(***************************************************************************)

Users == {1, 2, 3}

ApiKeyA == <<"a">>
TokenT == <<"t">>

\* config.ini as deployed: the three required settings, ADMIN_USER_IDS
\* present or left out (load then defaults it to "[]"), and possibly an
\* option the bot does not know.
InitFiles ==
    LET required == [cohere_api_key |-> ApiKeyA, discord_token |-> TokenT,
                     master_admin_id |-> <<"1">>]
        admins == {<<>>, ("admin_user_ids" :> EmptyJsonList),
                   ("admin_user_ids" :> JsonDumps(<<2>>))}
        extra == {<<>>, ("extra" :> <<"e">>)}
    IN  {[exists |-> TRUE, options |-> required @@ a @@ e] : a \in admins, e \in extra}

NoFile == [exists |-> FALSE, options |-> <<>>]

DefaultPrompt == "default"

NoView == [kind |-> "none", user |-> 0, list |-> <<>>]

NoCall == [cmd |-> "start"]

\* main(): Config.load() succeeded, CohereLogic and ConversationManager
\* were constructed, no command has run yet.
InitWith(files) ==
    /\ conversations = <<>>
    /\ ephemeral_settings = <<>>
    /\ view = NoView
    /\ added = [u \in Users |-> <<>>]
    /\ config_file \in files
    /\ load(config_file).err = ""
    /\ config = load(config_file).cfg
    /\ prompt_file = [readable |-> TRUE, system_prompt |-> "p0"]
    /\ system_prompt = "p0"
    /\ tasks = {}
    /\ last = NoCall

\* The usual deployment: all four settings, one admin besides the master
DeployedFile == CHOOSE f \in InitFiles : DOMAIN f.options =
    {"cohere_api_key", "discord_token", "master_admin_id", "admin_user_ids"}
    /\ f.options.admin_user_ids = JsonDumps(<<2>>)

InitConfig == InitWith(InitFiles)

InitDeployed == InitWith({DeployedFile})

(***************************************************************************)
(* SpecConfig: the Config store called directly, with any key and value    *)
(***************************************************************************)

KeyInputs == RecognizedKeys \cup {"EXTRA", "BOGUS"}

ValueInputs(key) ==
    CASE key = "COHERE_API_KEY" ->
             {<<"b">>, <<" ", "b">>, <<"b", "%", "%">>, <<"%">>, <<>>}
      [] key = "DISCORD_TOKEN" -> {<<"u">>}
      [] key = "MASTER_ADMIN_ID" -> {<<"2">>, <<"x">>}
      [] key = "ADMIN_USER_IDS" -> {JsonDumps(<<2>>), JsonDumps(<<1, 3>>), <<"2">>, <<"x">>}
      [] OTHER -> {<<"v">>}

CfgUpdate ==
    \E key \in KeyInputs : \E value \in ValueInputs(key) :
        LET r == update_config(config, config_file, key, value)
        IN  /\ config' = r.cfg
            /\ config_file' = r.file
            /\ last' = [cmd |-> "update_config", key |-> key, value |-> value,
                        err |-> r.err, cause |-> r.cause]
            /\ UNCHANGED <<cmVars, promptVars, tasks>>

\* The environment removes config.ini while the bot runs
CfgFileRemoved ==
    /\ config_file.exists
    /\ config_file' = NoFile
    /\ last' = [cmd |-> "file_removed"]
    /\ UNCHANGED <<config, cmVars, promptVars, tasks>>

NextConfig == CfgUpdate \/ CfgFileRemoved

SpecConfig == InitConfig /\ [][NextConfig]_vars

\* What a reload finds stored for key
StoredValue(file, key) == ParserGet(ParserRead(file), key)

\* The Config field that mirrors key, and the same field as a reload
\* would compute it from the file
MemoryField(cfg, key) ==
    CASE key = "COHERE_API_KEY" -> cfg.cohere_api_key
      [] key = "DISCORD_TOKEN" -> cfg.discord_token
      [] key = "MASTER_ADMIN_ID" -> cfg.master_admin_id
      [] key = "ADMIN_USER_IDS" -> cfg.admin_user_ids

StoredField(file, key) ==
    CASE key = "COHERE_API_KEY" -> StoredValue(file, key)
      [] key = "DISCORD_TOKEN" -> StoredValue(file, key)
      [] key = "MASTER_ADMIN_ID" -> ParseInt(StoredValue(file, key)).val
      [] key = "ADMIN_USER_IDS" -> JsonLoads(StoredValue(file, key)).items

\* C8: after a successful update(key, value) a reload from storage yields
\* value for key, the in-memory field of key equals what is on disk, and
\* the values of all other keys, on disk and in memory, are unchanged.
C8_UpdateRoundTrip ==
    [][(last'.cmd = "update_config" /\ last'.err = "") =>
         /\ StoredValue(config_file', last'.key) = last'.value
         /\ last'.key \in RecognizedKeys =>
                MemoryField(config', last'.key) = StoredField(config_file', last'.key)
         /\ \A k \in KeyInputs \ {last'.key} :
                /\ ParserHas(ParserRead(config_file), k) =>
                       /\ ParserHas(ParserRead(config_file'), k)
                       /\ StoredValue(config_file', k) = StoredValue(config_file, k)
                /\ k \in RecognizedKeys => MemoryField(config', k) = MemoryField(config, k)
      ]_vars

\* C9: update(key, value) fails with a not-found error when the file no
\* longer exists and with an unknown-key error when key is not one of the
\* recognized settings; in both cases file and memory are unchanged.
C9_UpdateRejects ==
    [][last'.cmd = "update_config" =>
         /\ ~config_file.exists =>
                last'.err = "FileNotFoundError" /\ UNCHANGED cfgVars
         /\ (config_file.exists /\ last'.key \notin RecognizedKeys) =>
                /\ last'.err = "RuntimeError" /\ last'.cause = "KeyError"
                /\ UNCHANGED cfgVars
      ]_vars

(***************************************************************************)
(* ConversationManager: src/src/managers/conversation.py                   *)
(*                                                                         *)
(* conversations is the dict: its domain is the set of keys.  A Python     *)
(* list is an object: get_conversation hands out the dict's own list for   *)
(* a known user and a new empty list otherwise.  view describes the list   *)
(* a caller holds: "shared" is the very list stored under view.user,       *)
(* "own" a list no dict entry refers to (any more), with its contents.     *)
(***************************************************************************)

\* A slip in add_message: the message is put in front of the list
add_message_in_front(convs, user_id, message) ==
    IF user_id \notin DOMAIN convs
    THEN convs @@ (user_id :> <<message>>)
    ELSE [convs EXCEPT ![user_id] = <<message>> \o @]

\* ConversationManager.add_message
add_message(convs, user_id, message) ==
    IF user_id \notin DOMAIN convs
    THEN convs @@ (user_id :> <<message>>)
    ELSE [convs EXCEPT ![user_id] = Append(@, message)]

\* ConversationManager.get_conversation: the contents of the list returned
get_conversation(convs, user_id) ==
    IF user_id \in DOMAIN convs THEN convs[user_id] ELSE <<>>

\* ConversationManager.get_conversation: which list object is returned
get_conversation_object(convs, user_id) ==
    IF user_id \in DOMAIN convs
    THEN [kind |-> "shared", user |-> user_id, list |-> <<>>]
    ELSE [kind |-> "own", user |-> user_id, list |-> <<>>]

\* A reset that replaces the whole dictionary
reset_conversation_of_all(convs, user_id) == (user_id :> <<>>)

\* ConversationManager.reset_conversation
reset_conversation(convs, user_id) ==
    [u \in DOMAIN convs \cup {user_id} |-> IF u = user_id THEN <<>> ELSE convs[u]]

\* A clear that empties one user's list only
clear_first_conversation(convs) ==
    [u \in DOMAIN convs |->
        IF \A v \in DOMAIN convs : u <= v THEN <<>> ELSE convs[u]]

\* ConversationManager.clear_all_conversations
clear_all_conversations(convs) == <<>>

\* A lookup whose default is public
get_ephemeral_setting_default_public(settings, user_id) ==
    IF user_id \in DOMAIN settings THEN settings[user_id] ELSE FALSE

\* ConversationManager.get_ephemeral_setting
get_ephemeral_setting(settings, user_id) ==
    IF user_id \in DOMAIN settings THEN settings[user_id] ELSE TRUE

\* ConversationManager.set_ephemeral_setting
set_ephemeral_setting(settings, user_id, setting) ==
    [u \in DOMAIN settings \cup {user_id} |->
        IF u = user_id THEN setting ELSE settings[u]]

\* The contents of the list a caller holds
ViewList(v, convs) == IF v.kind = "shared" THEN convs[v.user] ELSE v.list

\* The dict entries of the users in replaced now refer to new lists (or to
\* none): a caller's list that was one of the old ones keeps its contents.
Detach(v, convs, replaced) ==
    IF v.kind = "shared" /\ v.user \in replaced
    THEN [kind |-> "own", user |-> v.user, list |-> convs[v.user]]
    ELSE v

(***************************************************************************)
(* SpecCM: the ConversationManager called directly                         *)
(***************************************************************************)

MaxMsgs == 3

CMUsers == {1, 2}

CMMessages == {[role |-> "user", content |-> "m1"],
               [role |-> "assistant", content |-> "r1"]}

RECURSIVE SumLen(_, _)
SumLen(f, S) ==
    IF S = {} THEN 0
    ELSE LET u == CHOOSE x \in S : TRUE IN Len(f[u]) + SumLen(f, S \ {u})

\* Messages held in all the lists
Stored == SumLen(conversations, DOMAIN conversations) + Len(view.list)

CMAddMessage ==
    \E u \in CMUsers, m \in CMMessages :
        /\ Stored < MaxMsgs
        /\ Len(added[u]) < MaxMsgs
        /\ conversations' = add_message(conversations, u, m)
        /\ added' = [added EXCEPT ![u] = Append(@, m)]
        /\ last' = [cmd |-> "add_message", user |-> u]
        /\ UNCHANGED <<ephemeral_settings, view, cfgVars, promptVars, tasks>>

CMGetConversation ==
    \E u \in CMUsers :
        /\ view' = get_conversation_object(conversations, u)
        /\ last' = [cmd |-> "get_conversation", user |-> u]
        /\ UNCHANGED <<conversations, ephemeral_settings, added, cfgVars,
                       promptVars, tasks>>

CMResetConversation ==
    \E u \in CMUsers :
        /\ conversations' = reset_conversation(conversations, u)
        /\ view' = Detach(view, conversations, {u})
        /\ added' = [added EXCEPT ![u] = <<>>]
        /\ last' = [cmd |-> "reset_conversation", user |-> u]
        /\ UNCHANGED <<ephemeral_settings, cfgVars, promptVars, tasks>>

CMClearAll ==
    /\ conversations' = clear_all_conversations(conversations)
    /\ view' = Detach(view, conversations, DOMAIN conversations)
    /\ added' = [u \in Users |-> <<>>]
    /\ last' = [cmd |-> "clear_all_conversations", user |-> 0]
    /\ UNCHANGED <<ephemeral_settings, cfgVars, promptVars, tasks>>

CMSetEphemeral ==
    \E u \in CMUsers, b \in BOOLEAN :
        /\ ephemeral_settings' = set_ephemeral_setting(ephemeral_settings, u, b)
        /\ last' = [cmd |-> "set_ephemeral_setting", user |-> u, value |-> b]
        /\ UNCHANGED <<conversations, view, added, cfgVars, promptVars, tasks>>

CMGetEphemeral ==
    \E u \in CMUsers :
        /\ last' = [cmd |-> "get_ephemeral_setting", user |-> u,
                    result |-> get_ephemeral_setting(ephemeral_settings, u)]
        /\ UNCHANGED <<cmVars, cfgVars, promptVars, tasks>>

NextCM ==
    \/ CMAddMessage
    \/ CMGetConversation
    \/ CMResetConversation
    \/ CMClearAll
    \/ CMSetEphemeral
    \/ CMGetEphemeral

SpecCM == InitDeployed /\ [][NextCM]_vars

\* C1: after any sequence of add_message calls (no reset or clear in
\* between) get_conversation(u) returns exactly the messages added for u,
\* in the order added; messages added for another user never appear in it.
C1_HistoryIsWhatWasAdded ==
    /\ \A u \in Users : get_conversation(conversations, u) = added[u]
    /\ last.cmd = "get_conversation" => ViewList(view, conversations) = added[last.user]

C1_Witness ==
    /\ last.cmd = "get_conversation" /\ last.user = 1
    /\ Len(added[1]) = 2 /\ added[1][1] # added[1][2]
    /\ Len(added[2]) = 1

(***************************************************************************)
(* SpecAlias: SpecCM with a caller that changes the list it was handed     *)
(***************************************************************************)

\* list.append on the list the caller holds
ViewAppend ==
    \E m \in CMMessages :
        /\ view.kind # "none"
        /\ Stored < MaxMsgs
        /\ IF view.kind = "shared"
           THEN /\ conversations' = [conversations EXCEPT ![view.user] = Append(@, m)]
                /\ view' = view
           ELSE /\ view' = [view EXCEPT !.list = Append(@, m)]
                /\ conversations' = conversations
        /\ last' = [cmd |-> "caller_append", user |-> view.user]
        /\ UNCHANGED <<ephemeral_settings, added, cfgVars, promptVars, tasks>>

\* list.clear on the list the caller holds
ViewClear ==
    /\ view.kind # "none"
    /\ IF view.kind = "shared"
       THEN /\ conversations' = [conversations EXCEPT ![view.user] = <<>>]
            /\ view' = view
       ELSE /\ view' = [view EXCEPT !.list = <<>>]
            /\ conversations' = conversations
    /\ last' = [cmd |-> "caller_clear", user |-> view.user]
    /\ UNCHANGED <<ephemeral_settings, added, cfgVars, promptVars, tasks>>

NextAlias ==
    \/ CMAddMessage
    \/ CMGetConversation
    \/ CMResetConversation
    \/ CMClearAll
    \/ ViewAppend
    \/ ViewClear

SpecAlias == InitDeployed /\ [][NextAlias]_vars

\* C4: the list returned by get_conversation is isolated from the
\* manager's state: a caller changing it (append, extend, clear) does not
\* change what a later get_conversation returns, for known and unknown users.
C4_ReturnedListIsolated ==
    [][last'.cmd \in {"caller_append", "caller_clear"} =>
         \A u \in Users :
             get_conversation(conversations', u) = get_conversation(conversations, u)
      ]_vars

(***************************************************************************)
(* CohereLogic: src/src/logic/cohere.py                                    *)
(***************************************************************************)

\* CohereLogic._load_system_prompt: the prompt stored in the file, or the
\* built-in one when the file cannot be read or parsed
load_system_prompt(file) ==
    IF file.readable THEN file.system_prompt ELSE DefaultPrompt

\* How open(..., 'w') and json.dump can end: both succeed, open raises
\* (nothing written), or the write raises after open truncated the file.
PromptWriteOutcomes == {"ok", "open_fails", "write_fails"}

\* An update that sets the prompt in memory before it writes the file
update_system_prompt_memory_first(prompt, file, new_prompt, io) ==
    CASE io = "ok" ->
            [err |-> "", system_prompt |-> new_prompt,
             file |-> [readable |-> TRUE, system_prompt |-> new_prompt]]
      [] io = "open_fails" ->
            [err |-> "RuntimeError", system_prompt |-> new_prompt, file |-> file]
      [] io = "write_fails" ->
            [err |-> "RuntimeError", system_prompt |-> new_prompt,
             file |-> [readable |-> FALSE, system_prompt |-> ""]]

\* CohereLogic.update_system_prompt
update_system_prompt(prompt, file, new_prompt, io) ==
    CASE io = "ok" ->
            [err |-> "", system_prompt |-> new_prompt,
             file |-> [readable |-> TRUE, system_prompt |-> new_prompt]]
      [] io = "open_fails" ->
            [err |-> "RuntimeError", system_prompt |-> prompt, file |-> file]
      [] io = "write_fails" ->
            [err |-> "RuntimeError", system_prompt |-> prompt,
             file |-> [readable |-> FALSE, system_prompt |-> ""]]

\* Messages built without the system entry
ChatMessagesWithoutSystem(prompt, conversation) == conversation

\* CohereLogic.chat, lines 35-36: the messages sent to the backend
ChatMessages(prompt, conversation) ==
    <<[role |-> "system", content |-> prompt]>> \o conversation

\* What self.client.chat can do: raise, or answer with content that is a
\* list of text blocks or a plain string, and with token counts
BackendRaises ==
    [raises |-> TRUE, shape |-> "none", blocks |-> <<>>, text |-> "",
     input_tokens |-> 0, output_tokens |-> 0, fits |-> TRUE]

\* fits: the reply text is short enough for the description of a Discord
\* embed; followup.send raises HTTPException for one that is not
BackendOutcomes ==
    {BackendRaises,
     [raises |-> FALSE, shape |-> "blocks", blocks |-> <<"r1">>, text |-> "",
      input_tokens |-> 3, output_tokens |-> 1, fits |-> TRUE],
     [raises |-> FALSE, shape |-> "string", blocks |-> <<>>, text |-> "r2",
      input_tokens |-> 5, output_tokens |-> 2, fits |-> TRUE],
     [raises |-> FALSE, shape |-> "string", blocks |-> <<>>, text |-> "r3",
      input_tokens |-> 7, output_tokens |-> 4, fits |-> FALSE]}

\* CohereLogic.chat, line 45: content[0].text if it has one, else content
ResponseContent(response) ==
    IF response.shape = "blocks" THEN response.blocks[1] ELSE response.text

\* A slip in CohereLogic.chat: the exception is logged and not re-raised
chat_swallowing_errors(response) ==
    IF response.raises
    THEN [raised |-> FALSE, content |-> "", token_info |-> [input |-> 0, output |-> 0]]
    ELSE [raised |-> FALSE, content |-> ResponseContent(response),
          token_info |-> [input |-> response.input_tokens,
                          output |-> response.output_tokens]]

\* A chat() that reports the two token counts the wrong way round
chat_swapped_usage(response) ==
    IF response.raises
    THEN [raised |-> TRUE, content |-> "", token_info |-> [input |-> 0, output |-> 0]]
    ELSE [raised |-> FALSE, content |-> ResponseContent(response),
          token_info |-> [input |-> response.output_tokens,
                          output |-> response.input_tokens]]

\* CohereLogic.chat, lines 38-53: what the call returns to the handler,
\* given what the backend did
chat(response) ==
    IF response.raises
    THEN [raised |-> TRUE, content |-> "", token_info |-> [input |-> 0, output |-> 0]]
    ELSE [raised |-> FALSE, content |-> ResponseContent(response),
          token_info |-> [input |-> response.input_tokens,
                          output |-> response.output_tokens]]

\* A backend client whose call is awaited (cohere.AsyncClientV2): other
\* handlers run while the request is out
BackendCallAwaited == TRUE

\* self.client is cohere.ClientV2 and chat() calls it without await
\* (cohere.py lines 11 and 39-42): the call blocks the event loop, no
\* other handler runs until it has returned or raised.
BackendCallSuspends == FALSE

\* Calls to the backend per chat(): one, the except branch re-raises
ChatAttempts == 1

(***************************************************************************)
(* The slash commands: src/src/commands/chat.py                            *)
(*                                                                         *)
(* Every handler is a coroutine on discord.py's one event loop: it runs    *)
(* without interruption up to an await on network I/O                      *)
(* (interaction.response.defer, followup.send, send_message).  A handler   *)
(* suspended at such an await with work left is a record in tasks; the     *)
(* await that ends a handler needs none.  Awaiting chat() and              *)
(* _create_response_embed() suspends nothing: they contain no await.       *)
(***************************************************************************)

MaxTasks == 2

MaxHistory == 4

Senders == {2, 3}

ErrorNotice == "error_notice"

\* The message typed into interaction number id
TextOf(id) == <<"m1", "m2", "m3", "m4">>[id]

FreeId == CHOOSE i \in 1..MaxTasks :
              /\ \A t \in tasks : t.id # i
              /\ \A j \in 1..(i - 1) : \E t \in tasks : t.id = j

NewTask(cmd, user) ==
    [id |-> FreeId, cmd |-> cmd, pc |-> "deferred", user |-> user, text |-> "",
     api_key |-> <<>>, flag |-> FALSE, payload |-> <<>>, before |-> <<>>,
     calls |-> 0]

SendTasks == {t \in tasks : t.cmd = "send"}

\* No handler is inside a blocking backend call
LoopFree == BackendCallSuspends \/ \A t \in tasks : t.pc # "calling"

\* A send that reads the user's display setting again when it answers
followup_ephemeral_read_again(is_ephemeral, settings, user_id) ==
    get_ephemeral_setting(settings, user_id)

\* ChatCommands.send, lines 44 and 49: followup.send(..., ephemeral=
\* is_ephemeral), the local variable assigned once at line 26
followup_ephemeral(is_ephemeral, settings, user_id) == is_ephemeral

\* ChatCommands.send, lines 26-27: read the setting, defer, suspend
SendStart(senders, room) ==
    \E u \in senders :
        /\ LoopFree
        /\ Cardinality(tasks) < MaxTasks
        /\ Stored + 2 * (Cardinality(SendTasks) + 1) <= room
        /\ LET is_ephemeral == get_ephemeral_setting(ephemeral_settings, u)
               t == [NewTask("send", u) EXCEPT !.text = TextOf(FreeId),
                                               !.flag = is_ephemeral]
           IN  /\ tasks' = tasks \cup {t}
               /\ last' = [cmd |-> "send", step |-> "defer", id |-> t.id,
                           user |-> u, ephemeral |-> is_ephemeral]
        /\ UNCHANGED <<cmVars, cfgVars, promptVars>>

\* ChatCommands.send, lines 30-36, and CohereLogic.chat, lines 35-42:
\* resumed after the defer, the handler appends the user's message, takes
\* the conversation, builds the messages and calls the backend
SendCall(t) ==
    /\ LoopFree
    /\ t.cmd = "send" /\ t.pc = "deferred"
    /\ LET message == [role |-> "user", content |-> t.text]
           convs == add_message(conversations, t.user, message)
           conversation == get_conversation(convs, t.user)
       IN  /\ conversations' = convs
           /\ added' = [added EXCEPT ![t.user] = Append(@, message)]
           /\ tasks' = (tasks \ {t}) \cup
                  {[t EXCEPT !.pc = "calling",
                             !.payload = ChatMessages(system_prompt, conversation),
                             !.before = get_conversation(conversations, t.user),
                             !.calls = 1]}
    /\ last' = [cmd |-> "send", step |-> "call", id |-> t.id, user |-> t.user]
    /\ UNCHANGED <<ephemeral_settings, view, cfgVars, promptVars>>

\* CohereLogic.chat, lines 44-53, and ChatCommands.send, lines 38-49: the
\* backend call returns or raises; the handler appends the reply and sends
\* it with the token counts, or sends the failure notice.  The reply's
\* followup.send (line 44) is inside the try: when it raises, the except
\* branch sends the failure notice as well.
SendReturn(t, outcomes) ==
    \E response \in outcomes :
        /\ t.cmd = "send" /\ t.pc = "calling"
        /\ LET r == chat(response)
               reply == [role |-> "assistant", content |-> r.content]
               seen == [cmd |-> "send", step |-> "respond", id |-> t.id,
                        user |-> t.user, text |-> t.text, before |-> t.before,
                        backend |-> response, returned |-> r, calls |-> t.calls,
                        ephemeral |-> followup_ephemeral(t.flag, ephemeral_settings,
                                                         t.user)]
               notice == [outcome |-> "error", content |-> ErrorNotice,
                          footer |-> FALSE,
                          token_info |-> [input |-> 0, output |-> 0]]
           IN  IF r.raised /\ t.calls < ChatAttempts
               THEN /\ tasks' = (tasks \ {t}) \cup {[t EXCEPT !.calls = @ + 1]}
                    /\ last' = [cmd |-> "send", step |-> "call", id |-> t.id,
                                user |-> t.user]
                    /\ UNCHANGED <<conversations, added>>
               ELSE IF r.raised
               THEN /\ tasks' = tasks \ {t}
                    /\ last' = seen @@ notice
                    /\ UNCHANGED <<conversations, added>>
               ELSE /\ conversations' = add_message(conversations, t.user, reply)
                    /\ added' = [added EXCEPT ![t.user] = Append(@, reply)]
                    /\ tasks' = tasks \ {t}
                    /\ last' = IF response.fits
                               THEN seen @@ [outcome |-> "reply", content |-> r.content,
                                             footer |-> TRUE,
                                             token_info |-> r.token_info]
                               ELSE seen @@ notice
        /\ UNCHANGED <<ephemeral_settings, view, cfgVars, promptVars>>

\* ChatCommands.reset
Reset ==
    \E u \in Senders :
        /\ LoopFree
        /\ conversations' = reset_conversation(conversations, u)
        /\ added' = [added EXCEPT ![u] = <<>>]
        /\ last' = [cmd |-> "reset", user |-> u,
                    ephemeral |-> get_ephemeral_setting(ephemeral_settings, u)]
        /\ UNCHANGED <<ephemeral_settings, view, cfgVars, promptVars, tasks>>

\* ChatCommands.settings
Settings ==
    \E u \in Senders, ephemeral \in BOOLEAN :
        /\ LoopFree
        /\ ephemeral_settings' = set_ephemeral_setting(ephemeral_settings, u, ephemeral)
        /\ last' = [cmd |-> "settings", user |-> u, ephemeral |-> ephemeral]
        /\ UNCHANGED <<conversations, view, added, cfgVars, promptVars, tasks>>

\* The check `interaction.user.id != self.bot.config.master_admin_id`
\* turned into an admin check
IsMasterOrAdmin(cfg, user_id) == is_admin(cfg, user_id)

\* chat.py lines 72, 104, 123: the caller is the master admin
IsMaster(cfg, user_id) == user_id = cfg.master_admin_id

\* list(current_admins): the members of a set in some order
Perms(S) ==
    {l \in [1..Cardinality(S) -> S] : \A i, j \in DOMAIN l : l[i] = l[j] => i = j}

\* An add_admin whose discard branch adds as well
current_admins_add_only(admin_user_ids, admin_id, add) ==
    Range(admin_user_ids) \cup {admin_id}

\* chat.py lines 130-135: set(admin_user_ids), then add or discard
current_admins(admin_user_ids, admin_id, add) ==
    IF add THEN Range(admin_user_ids) \cup {admin_id}
    ELSE Range(admin_user_ids) \ {admin_id}

\* The admin identities config.ini holds (none when the option is absent)
DiskAdmins(file) ==
    IF file.exists /\ ParserHas(ParserRead(file), "ADMIN_USER_IDS")
    THEN Range(JsonLoads(StoredValue(file, "ADMIN_USER_IDS")).items)
    ELSE {}

\* ChatCommands.list_admins; fetched tells whether every fetch_user succeeded
ListAdmins(fetches) ==
    \E u \in Users, fetched \in fetches :
        /\ LoopFree
        /\ last' = [cmd |-> "list_admins", step |-> "check", id |-> 0, user |-> u,
                    outcome |-> IF ~IsMaster(config, u) THEN "denied"
                                ELSE IF fetched THEN "ok" ELSE "failed",
                    listed |-> IF IsMaster(config, u) /\ fetched
                               THEN <<config.master_admin_id>> \o config.admin_user_ids
                               ELSE <<>>]
        /\ UNCHANGED <<cmVars, cfgVars, promptVars, tasks>>

\* ChatCommands.add_admin: no await before the update, the handler is one step
AddAdmin(ids) ==
    \E u \in Users, user_id \in ids, add \in BOOLEAN :
        /\ LoopFree
        /\ LET admin_id == ParseInt(user_id)
               members == current_admins(config.admin_user_ids, admin_id.val, add)
               follows_add == /\ last.cmd = "add_admin"
                              /\ last.add /\ last.outcome = "ok" /\ ~add
                              /\ last.user_id = user_id
                              /\ admin_id.val \notin Range(last.before)
               seen == [cmd |-> "add_admin", step |-> "check", id |-> 0, user |-> u,
                        user_id |-> user_id, add |-> add,
                        before |-> config.admin_user_ids,
                        disk |-> DiskAdmins(config_file),
                        follows_add |-> follows_add]
           IN  IF ~IsMaster(config, u)
               THEN /\ last' = seen @@ [outcome |-> "denied"]
                    /\ UNCHANGED cfgVars
               ELSE IF ~admin_id.ok
               THEN /\ last' = seen @@ [outcome |-> "invalid"]
                    /\ UNCHANGED cfgVars
               ELSE \E new_list \in Perms(members) :
                        LET r == update_config(config, config_file, "ADMIN_USER_IDS",
                                               JsonDumps(new_list))
                        IN  /\ config' = r.cfg
                            /\ config_file' = r.file
                            /\ last' = seen @@ [outcome |-> IF r.err = "" THEN "ok"
                                                            ELSE "failed"]
        /\ UNCHANGED <<cmVars, promptVars, tasks>>

\* ChatCommands.update_key, lines 104-109: the check, then the defer
KeyCheck(keys) ==
    \E u \in Users, api_key \in keys :
        /\ LoopFree
        /\ IF ~IsMaster(config, u)
           THEN /\ last' = [cmd |-> "update_key", step |-> "check", id |-> 0,
                            user |-> u, outcome |-> "denied"]
                /\ UNCHANGED tasks
           ELSE /\ Cardinality(tasks) < MaxTasks
                /\ tasks' = tasks \cup
                       {[NewTask("update_key", u) EXCEPT !.api_key = api_key]}
                /\ last' = [cmd |-> "update_key", step |-> "check", id |-> FreeId,
                            user |-> u, outcome |-> "deferred"]
        /\ UNCHANGED <<cmVars, cfgVars, promptVars>>

\* ChatCommands.update_key, lines 110-118: the key is saved and a new
\* CohereLogic is constructed, which reads the prompt file again
KeyFinish(t) ==
    /\ LoopFree
    /\ t.cmd = "update_key"
    /\ LET r == update_config(config, config_file, "COHERE_API_KEY", t.api_key)
       IN  /\ config' = r.cfg
           /\ config_file' = r.file
           /\ system_prompt' = IF r.err = "" THEN load_system_prompt(prompt_file)
                               ELSE system_prompt
           /\ last' = [cmd |-> "update_key", step |-> "finish", id |-> t.id,
                       user |-> t.user,
                       outcome |-> IF r.err = "" THEN "ok" ELSE "failed"]
    /\ tasks' = tasks \ {t}
    /\ UNCHANGED <<cmVars, prompt_file>>

\* ChatCommands.update_system_prompt, lines 152-157: the check, then the defer
PromptCheck(prompts, resets) ==
    \E u \in Users, prompt \in prompts, reset_conversations \in resets :
        /\ LoopFree
        /\ IF ~is_admin(config, u)
           THEN /\ last' = [cmd |-> "update_system_prompt", step |-> "check",
                            id |-> 0, user |-> u, outcome |-> "denied"]
                /\ UNCHANGED tasks
           ELSE /\ Cardinality(tasks) < MaxTasks
                /\ tasks' = tasks \cup
                       {[NewTask("update_system_prompt", u)
                            EXCEPT !.text = prompt, !.flag = reset_conversations]}
                /\ last' = [cmd |-> "update_system_prompt", step |-> "check",
                            id |-> FreeId, user |-> u, outcome |-> "deferred"]
        /\ UNCHANGED <<cmVars, cfgVars, promptVars>>

\* ChatCommands.update_system_prompt, lines 158-173
PromptFinish(t, ios) ==
    \E io \in ios :
        /\ LoopFree
        /\ t.cmd = "update_system_prompt"
        /\ LET r == update_system_prompt(system_prompt, prompt_file, t.text, io)
           IN  /\ system_prompt' = r.system_prompt
               /\ prompt_file' = r.file
               /\ IF r.err = "" /\ t.flag
                  THEN /\ conversations' = clear_all_conversations(conversations)
                       /\ added' = [u \in Users |-> <<>>]
                  ELSE UNCHANGED <<conversations, added>>
               /\ last' = [cmd |-> "update_system_prompt", step |-> "finish",
                           id |-> t.id, user |-> t.user, reset |-> t.flag,
                           known |-> {u \in DOMAIN conversations :
                                         conversations[u] # <<>>},
                           outcome |-> IF r.err = "" THEN "ok" ELSE "failed"]
        /\ tasks' = tasks \ {t}
        /\ UNCHANGED <<ephemeral_settings, view, cfgVars>>

(***************************************************************************)
(* Spec: users chatting (send, reset, settings), their sends overlapping   *)
(***************************************************************************)

Next ==
    \/ SendStart(Senders, MaxHistory)
    \/ \E t \in tasks : SendCall(t)
    \/ \E t \in tasks : SendReturn(t, BackendOutcomes)
    \/ Reset
    \/ Settings

Spec == InitDeployed /\ [][Next]_vars

UserMessage(text) == [role |-> "user", content |-> text]

SendAnswered == last.cmd = "send" /\ last.step = "respond"

\* C2: a send whose backend call succeeds with reply r and usage
\* (input, output) grows the user's history by exactly two entries, the
\* user's message followed by the assistant's r, and the result returned to the
\* handler by chat() carries exactly the token counts the backend reported.
C2_SendAppendsExchange ==
    (SendAnswered /\ ~last.backend.raises) =>
        /\ ~last.returned.raised
        /\ last.returned.content = ResponseContent(last.backend)
        /\ get_conversation(conversations, last.user) =
               last.before \o <<UserMessage(last.text),
                                [role |-> "assistant",
                                 content |-> ResponseContent(last.backend)]>>
        /\ last.returned.token_info = [input |-> last.backend.input_tokens,
                                       output |-> last.backend.output_tokens]

C2_Witness ==
    /\ SendAnswered /\ ~last.backend.raises
    /\ last.before # <<>>
    /\ last.backend.shape = "blocks"

\* C3: a send whose backend call raises keeps the user's message in the
\* history, appends no assistant entry, has called the backend exactly once,
\* and the error reaches the command handler, which answers with the failure
\* notice and ends.
C3_FailedSendKeepsUserMessage ==
    (SendAnswered /\ last.backend.raises) =>
        /\ last.returned.raised
        /\ last.outcome = "error"
        /\ last.content = ErrorNotice
        /\ get_conversation(conversations, last.user) =
               Append(last.before, UserMessage(last.text))
        /\ last.calls = 1
        /\ \A t \in tasks : t.id # last.id

C3_Witness ==
    /\ SendAnswered /\ last.backend.raises
    /\ last.before # <<>>

Calling == {t \in tasks : t.pc = "calling"}

\* C5 (as the code has it): two sends of one user that overlap in time do
\* not interleave their add_message / get_conversation / backend call /
\* add_message steps.  The backend call is a synchronous call inside a
\* coroutine, so it suspends nothing: at most one send is between its
\* add_message and its answer, the history it left is the history it found
\* plus its own user message, and the payload is the system prompt followed
\* by that history.
C5_SendsDoNotInterleave ==
    /\ Cardinality(Calling) <= 1
    /\ \A t \in Calling :
           /\ get_conversation(conversations, t.user) =
                  Append(t.before, UserMessage(t.text))
           /\ t.payload = ChatMessages(system_prompt,
                                       get_conversation(conversations, t.user))

C5_Witness ==
    \E t1 \in Calling : \E t2 \in tasks :
        /\ t2.cmd = "send" /\ t2.pc = "deferred"
        /\ t2.user = t1.user

\* C5 (as stated): while one send of a user waits for the backend, another
\* send of the same user can take its add_message step, which puts both
\* user messages in the history before either reply.
C5_SendsInterleave ==
    \A t1 \in Calling : \A t2 \in tasks :
        (t2.cmd = "send" /\ t2.pc = "deferred" /\ t2.user = t1.user)
            => ENABLED SendCall(t2)

(***************************************************************************)
(* SpecAdmin: the master (and others) running add_admin and list_admins    *)
(***************************************************************************)

IdInputs == {<<"1">>, <<"2">>, <<"3">>, <<"x">>}

NextAdmin ==
    \/ AddAdmin(IdInputs)
    \/ ListAdmins(BOOLEAN)

SpecAdmin == InitConfig /\ [][NextAdmin]_vars

AddAdminAnswered == last.cmd = "add_admin" /\ last.outcome \in {"ok", "failed"}

\* C6: is_admin(u) is true exactly when u is the master or u is in the
\* current admin list; after an add_admin that succeeded the list is the
\* one before it with the identity added or removed, after one that did
\* not it is the one before it; and the master is an admin throughout,
\* also after removing the master's own identity from the list.
C6_IsAdminFollowsUpdates ==
    /\ is_admin(config, config.master_admin_id)
    /\ \A u \in Users :
           is_admin(config, u) <=>
               (u = config.master_admin_id \/ u \in Range(config.admin_user_ids))
    /\ last.cmd = "add_admin" =>
           LET x == ParseInt(last.user_id).val
               members == IF last.outcome # "ok" THEN Range(last.before)
                          ELSE IF last.add THEN Range(last.before) \cup {x}
                          ELSE Range(last.before) \ {x}
           IN  \A u \in Users :
                   is_admin(config, u) <=> (u = config.master_admin_id \/ u \in members)

C6_Witness ==
    /\ last.cmd = "add_admin" /\ last.outcome = "ok" /\ ~last.add
    /\ ParseInt(last.user_id).val = config.master_admin_id
    /\ config.master_admin_id \in Range(last.before)
    /\ config.master_admin_id \notin Range(config.admin_user_ids)
    /\ is_admin(config, config.master_admin_id)

\* C10: when x is neither the master nor in the admin list and the master
\* runs add_admin(x, add=true) and next add_admin(x, add=false), then
\* is_admin(x) is false and the admin list, in memory and in config.ini,
\* has the members it had before the two commands.
C10_AddThenRemove ==
    [][(/\ AddAdminAnswered /\ last.add
        /\ last'.cmd = "add_admin" /\ last'.outcome \in {"ok", "failed"}
        /\ ~last'.add
        /\ last'.user_id = last.user_id
        /\ ParseInt(last.user_id).val # config.master_admin_id
        /\ ParseInt(last.user_id).val \notin Range(last.before))
       => /\ ~is_admin(config', ParseInt(last.user_id).val)
          /\ Range(config'.admin_user_ids) = Range(last.before)
          /\ DiskAdmins(config_file') = last.disk]_vars

C10_Witness ==
    /\ last.cmd = "add_admin" /\ last.outcome = "ok" /\ last.follows_add
    /\ ParseInt(last.user_id).val # config.master_admin_id
    /\ Range(config.admin_user_ids) # {}
    /\ DiskAdmins(config_file) = Range(config.admin_user_ids)

(***************************************************************************)
(* SpecGate: the four privileged commands beside a user's chat             *)
(***************************************************************************)

NextGate ==
    \/ ListAdmins({TRUE})
    \/ AddAdmin({<<"3">>})
    \/ KeyCheck({<<"b">>})
    \/ \E t \in tasks : KeyFinish(t)
    \/ PromptCheck({"p1"}, {TRUE})
    \/ \E t \in tasks : PromptFinish(t, {"ok"})
    \/ SendStart({3}, 2)
    \/ \E t \in tasks : SendCall(t)
    \/ \E t \in tasks : SendReturn(t, {r \in BackendOutcomes : r.shape = "blocks"})

SpecGate == InitDeployed /\ [][NextGate]_vars

Gated == {"list_admins", "update_key", "add_admin", "update_system_prompt"}

\* C7: update_key, add_admin and list_admins act only for the master, and
\* update_system_prompt only for a caller for whom is_admin holds: a caller
\* who fails the check is told so and leaves the config, config.ini, the
\* system prompt, the prompt file, every conversation and the pending
\* handlers as they were; a pending update_key belongs to the master; the
\* config and the prompt change only in steps of the commands that own them.
C7_PrivilegedCommandsGated ==
    [][/\ (last'.cmd \in Gated /\ last'.step = "check") =>
              LET master == last'.user = config.master_admin_id
                  allowed == IF last'.cmd = "update_system_prompt"
                             THEN master \/ last'.user \in Range(config.admin_user_ids)
                             ELSE master
              IN  /\ allowed <=> last'.outcome # "denied"
                  /\ ~allowed =>
                         UNCHANGED <<config, config_file, system_prompt, prompt_file,
                                     conversations, tasks>>
       /\ \A t \in tasks' : t.cmd = "update_key" => t.user = config.master_admin_id
       /\ (config' # config \/ config_file' # config_file) =>
              /\ last'.cmd \in {"update_key", "add_admin"}
              /\ last'.user = config.master_admin_id
       /\ (system_prompt' # system_prompt \/ prompt_file' # prompt_file) =>
              /\ last'.cmd \in {"update_key", "update_system_prompt"}
              /\ last'.step = "finish"
      ]_vars

C7_Witness ==
    /\ last.cmd = "update_system_prompt" /\ last.outcome = "denied"
    /\ get_conversation(conversations, last.user) # <<>>
    /\ system_prompt = "p1"
    /\ config.cohere_api_key = <<"b">>

(***************************************************************************)
(* SpecLoad: Config.load at start-up, on whatever config.ini holds         *)
(***************************************************************************)

RequiredKeys == {"COHERE_API_KEY", "DISCORD_TOKEN", "MASTER_ADMIN_ID"}

MasterTexts == {<<"1">>, <<" ", "1">>, <<"x">>}

AdminTexts ==
    {EmptyJsonList, JsonDumps(<<2>>), JsonDumps(<<2, 3>>), <<"2">>, <<"x">>,
     <<"[", "2">>, <<"[", "\"", "a", "\"", "]">>,
     <<"[", "2", ",", " ", "\"", "a", "\"", "]">>}

\* config.ini in any condition: gone, or with each setting present or not
LoadFiles ==
    LET key == {<<>>, ("cohere_api_key" :> ApiKeyA)}
        token == {<<>>, ("discord_token" :> TokenT)}
        master == {<<>>} \cup {("master_admin_id" :> m) : m \in MasterTexts}
        admins == {<<>>} \cup {("admin_user_ids" :> a) : a \in AdminTexts}
    IN  {NoFile} \cup
        {[exists |-> TRUE, options |-> k @@ t @@ m @@ a] :
             k \in key, t \in token, m \in master, a \in admins}

\* main() before Config.load(): nothing is constructed yet
InitLoad ==
    /\ conversations = <<>>
    /\ ephemeral_settings = <<>>
    /\ view = NoView
    /\ added = [u \in Users |-> <<>>]
    /\ config_file \in LoadFiles
    /\ config = NoConfig
    /\ prompt_file = [readable |-> TRUE, system_prompt |-> "p0"]
    /\ system_prompt = "p0"
    /\ tasks = {}
    /\ last = NoCall

\* main(), line 12: config = Config.load()
Load ==
    /\ last = NoCall
    /\ config' = load(config_file).cfg
    /\ last' = [cmd |-> "load", err |-> load(config_file).err]
    /\ UNCHANGED <<cmVars, config_file, promptVars, tasks>>

SpecLoad == InitLoad /\ [][Load]_vars

\* Text that is a well-formed JSON list of integers
IsJsonIntList(s) ==
    LET t == Strip(s)
        inner == Strip(SubSeq(t, 2, Len(t) - 1))
        items == Split(inner, ",")
    IN  /\ Len(t) >= 2 /\ t[1] = "[" /\ t[Len(t)] = "]"
        /\ inner # <<>> => \A i \in DOMAIN items : JsonInt(Strip(items[i]))

\* C11: load fails with a not-found error when the file is absent, and
\* with an invalid-config error when a required key is missing, when the
\* master admin id is not numeric, or when ADMIN_USER_IDS is not a
\* well-formed JSON list of integers; otherwise it succeeds, and when
\* ADMIN_USER_IDS is absent the admin list is empty, the master is an admin
\* and nobody else is.
C11_LoadValidates ==
    last.cmd = "load" =>
        LET options == ParserRead(config_file)
            has_admins == ParserHas(options, "ADMIN_USER_IDS")
            invalid ==
                \/ \E k \in RequiredKeys : ~ParserHas(options, k)
                \/ ~ParseInt(ParserGet(options, "MASTER_ADMIN_ID")).ok
                \/ has_admins /\ ~IsJsonIntList(ParserGet(options, "ADMIN_USER_IDS"))
        IN  IF ~config_file.exists THEN last.err = "FileNotFoundError"
            ELSE IF invalid THEN last.err = "ValueError"
            ELSE /\ last.err = ""
                 /\ ~has_admins =>
                        /\ config.admin_user_ids = <<>>
                        /\ \A u \in Users :
                               is_admin(config, u) <=> u = config.master_admin_id

\* C12: in every state after a successful load, through any sequence of
\* updates, the API key and the bot token in memory are non-empty.
C12_SecretsNonEmpty ==
    /\ config.cohere_api_key # <<>>
    /\ config.discord_token # <<>>

\* C19: an update_config call that fails leaves config.ini and the config
\* in memory as they were before the call, so a value that was rejected is
\* not on disk and a load that succeeded before still succeeds and agrees
\* with memory.
C19_FailedUpdateChangesNothing ==
    [][(last'.cmd = "update_config" /\ last'.err # "") =>
           /\ config' = config
           /\ config_file' = config_file
           /\ load(config_file).err = "" => load(config_file').err = ""]_vars

\* C20: when config.ini has no ADMIN_USER_IDS, the master's
\* add_admin(x, add=true) succeeds and makes x an admin.
C20_AddAdminWithoutStoredList ==
    (/\ last.cmd = "add_admin" /\ last.add
     /\ last.user = config.master_admin_id
     /\ ParseInt(last.user_id).ok
     /\ last.disk = {} /\ last.before = <<>>
     /\ ~ParserHas(ParserRead(config_file), "ADMIN_USER_IDS"))
    => /\ last.outcome = "ok"
       /\ is_admin(config, ParseInt(last.user_id).val)

\* C18: every send whose backend call returns or raises ends with exactly
\* one response to the user: the reply with its usage footer when the
\* backend succeeded, the failure notice when it raised.
C18_OneResponsePerSend ==
    [][\A t \in Calling :
           t \notin tasks' =>
               /\ last'.cmd = "send" /\ last'.step = "respond" /\ last'.id = t.id
               /\ IF last'.backend.raises
                  THEN /\ last'.outcome = "error"
                       /\ last'.content = ErrorNotice /\ ~last'.footer
                  ELSE /\ last'.outcome = "reply"
                       /\ last'.content = ResponseContent(last'.backend)
                       /\ last'.footer
                       /\ last'.token_info =
                              [input |-> last'.backend.input_tokens,
                               output |-> last'.backend.output_tokens]]_vars

(***************************************************************************)
(* SpecPrompt: users chatting while admins change the system prompt        *)
(***************************************************************************)

NextPrompt ==
    \/ SendStart(Senders, MaxHistory)
    \/ \E t \in tasks : SendCall(t)
    \/ \E t \in tasks : SendReturn(t, {r \in BackendOutcomes : r.shape = "blocks"})
    \/ PromptCheck({"p1"}, BOOLEAN)
    \/ \E t \in tasks : PromptFinish(t, PromptWriteOutcomes)

SpecPrompt == InitDeployed /\ [][NextPrompt]_vars

PromptFinished == last.cmd = "update_system_prompt" /\ last.step = "finish"

\* C13: the payload of a send by u is one system entry holding the system
\* prompt current at the time of the request, followed by u's full history
\* in order, ending with the message just sent; no history ever holds a
\* system entry; and a change of the system prompt leaves the stored
\* histories unchanged (unless the command also asked for the reset).
C13_PayloadIsPromptPlusHistory ==
    /\ [](/\ \A t \in Calling :
                LET history == get_conversation(conversations, t.user)
                IN  /\ t.payload =
                           <<[role |-> "system", content |-> system_prompt]>> \o history
                    /\ history # <<>>
                    /\ history[Len(history)] = UserMessage(t.text)
                    /\ Cardinality({i \in DOMAIN t.payload :
                                       t.payload[i].role = "system"}) = 1
          /\ \A u \in DOMAIN conversations : \A i \in DOMAIN conversations[u] :
                conversations[u][i].role # "system")
    /\ [][system_prompt' # system_prompt =>
              \/ conversations' = conversations
              \/ last'.cmd = "update_system_prompt" /\ last'.reset]_vars

C13_Witness ==
    \E t \in Calling :
        /\ system_prompt = "p1"
        /\ Len(t.payload) >= 4
        /\ t.payload[1].content = "p1"

\* C14: after update_system_prompt(new_text) returned successfully the
\* prompt file and the prompt in memory hold new_text, and a read of the
\* file yields new_text; after it failed the prompt in memory is the one
\* from before the call.
C14_PromptReadAfterWrite ==
    [][(last'.cmd = "update_system_prompt" /\ last'.step = "finish") =>
           \A t \in tasks :
               t.id = last'.id =>
                   IF last'.outcome = "ok"
                   THEN /\ system_prompt' = t.text
                        /\ prompt_file'.readable
                        /\ prompt_file'.system_prompt = t.text
                        /\ load_system_prompt(prompt_file') = t.text
                   ELSE system_prompt' = system_prompt]_vars

C14_Witness ==
    /\ PromptFinished /\ last.outcome = "ok"
    /\ system_prompt = "p1"
    /\ prompt_file = [readable |-> TRUE, system_prompt |-> "p1"]

\* C15: clear_all_conversations empties the history of every user at once;
\* an update_system_prompt(text, reset=true) that succeeds leaves the prompt
\* file holding text and get_conversation empty for every user known
\* before, whereas with reset=false, or when writing the prompt fails, no
\* history is changed.
C15_ResetClearsEveryHistory ==
    [][/\ \A u \in Users :
              get_conversation(clear_all_conversations(conversations), u) = <<>>
       /\ (last'.cmd = "update_system_prompt" /\ last'.step = "finish") =>
              \A t \in tasks :
                  t.id = last'.id =>
                      IF last'.outcome = "ok" /\ t.flag
                      THEN /\ prompt_file'.system_prompt = t.text
                           /\ \A u \in Users :
                                  get_conversation(conversations', u) = <<>>
                      ELSE conversations' = conversations]_vars

C15_Witness ==
    /\ PromptFinished /\ last.outcome = "ok" /\ last.reset
    /\ Cardinality(last.known) >= 2
    /\ \A u \in Users : get_conversation(conversations, u) = <<>>

\* C16: reset_conversation(u), as the reset command calls it, makes u's
\* history empty and changes nothing else: every other user's history and
\* every user's display setting, u's included, are as before.
C16_ResetTouchesOneHistory ==
    [][last'.cmd = "reset" =>
           /\ get_conversation(conversations', last'.user) = <<>>
           /\ \A v \in Users \ {last'.user} :
                  /\ get_conversation(conversations', v) =
                         get_conversation(conversations, v)
                  /\ v \in DOMAIN conversations' <=> v \in DOMAIN conversations
           /\ ephemeral_settings' = ephemeral_settings
           /\ \A v \in Users :
                  get_ephemeral_setting(ephemeral_settings', v) =
                      get_ephemeral_setting(ephemeral_settings, v)
           /\ UNCHANGED <<cfgVars, promptVars, tasks>>]_vars

C16_Witness ==
    /\ last.cmd = "reset"
    /\ get_conversation(conversations, last.user) = <<>>
    /\ \E v \in Users \ {last.user} : get_conversation(conversations, v) # <<>>
    /\ last.user \in DOMAIN ephemeral_settings
    /\ ~get_ephemeral_setting(ephemeral_settings, last.user)

\* C17: for a user never seen before get_conversation returns the empty
\* list and get_ephemeral_setting returns true; set_ephemeral_setting(u, b)
\* makes get_ephemeral_setting(u) return b until the next set for u and
\* leaves other users' settings alone; the reads create no history entry.
C17_DefaultsAndSettings ==
    [][/\ last'.cmd = "get_conversation" =>
              /\ last'.user \notin DOMAIN conversations =>
                     /\ view'.kind = "own" /\ ViewList(view', conversations') = <<>>
              /\ conversations' = conversations
              /\ ephemeral_settings' = ephemeral_settings
       /\ last'.cmd = "get_ephemeral_setting" =>
              /\ last'.user \notin DOMAIN ephemeral_settings => last'.result = TRUE
              /\ last'.user \in DOMAIN ephemeral_settings =>
                     last'.result = ephemeral_settings[last'.user]
              /\ conversations' = conversations
              /\ ephemeral_settings' = ephemeral_settings
       /\ last'.cmd = "set_ephemeral_setting" =>
              /\ get_ephemeral_setting(ephemeral_settings', last'.user) = last'.value
              /\ ephemeral_settings'[last'.user] = last'.value
              /\ \A v \in Users \ {last'.user} :
                     /\ v \in DOMAIN ephemeral_settings' <=>
                            v \in DOMAIN ephemeral_settings
                     /\ get_ephemeral_setting(ephemeral_settings', v) =
                            get_ephemeral_setting(ephemeral_settings, v)
       /\ last'.cmd \notin {"set_ephemeral_setting"} =>
              ephemeral_settings' = ephemeral_settings]_vars

C17_Witness ==
    /\ last.cmd = "get_ephemeral_setting"
    /\ last.user \notin DOMAIN ephemeral_settings /\ last.result
    /\ \E v \in DOMAIN ephemeral_settings : ~ephemeral_settings[v]
    /\ last.user \notin DOMAIN conversations
    /\ conversations # <<>>

(***************************************************************************)
(* SpecHistory: users chatting and resetting while admins replace the      *)
(* system prompt with reset_conversations set                              *)
(***************************************************************************)

NextHistory ==
    \/ SendStart(Senders, MaxHistory)
    \/ \E t \in tasks : SendCall(t)
    \/ \E t \in tasks : SendReturn(t, {r \in BackendOutcomes : r.shape # "string"})
    \/ Reset
    \/ PromptCheck({"p1"}, {TRUE})
    \/ \E t \in tasks : PromptFinish(t, {"ok"})

SpecHistory == InitDeployed /\ [][NextHistory]_vars

\* C21: however send, reset and update_system_prompt(reset=true) interleave,
\* each user's history is empty or starts with a user entry and every
\* assistant entry directly follows a user entry; the entry appended by a
\* send's reply directly follows the user entry of that same send.
C21_HistoryWellFormed ==
    /\ [](\A u \in DOMAIN conversations :
              LET history == conversations[u]
              IN  /\ history # <<>> => history[1].role = "user"
                  /\ \A i \in DOMAIN history :
                         history[i].role = "assistant" =>
                             i > 1 /\ history[i - 1].role = "user")
    /\ [][(last'.cmd = "send" /\ last'.step = "respond" /\ ~last'.returned.raised) =>
              LET history == get_conversation(conversations', last'.user)
                  n == Len(history)
              IN  /\ n >= 2
                  /\ history[n] = [role |-> "assistant",
                                   content |-> last'.returned.content]
                  /\ history[n - 1] = UserMessage(last'.text)
                  /\ get_conversation(conversations, last'.user) =
                         SubSeq(history, 1, n - 1)]_vars

\* A reply stored behind an earlier unanswered message of the same user,
\* after a reset emptied a history while a send was waiting
C21_Witness ==
    /\ SendAnswered /\ ~last.returned.raised
    /\ Len(get_conversation(conversations, last.user)) = 3
    /\ get_conversation(conversations, last.user)[1].role = "user"
    /\ get_conversation(conversations, last.user)[2] = UserMessage(last.text)
    /\ \E v \in DOMAIN conversations : v # last.user /\ conversations[v] = <<>>

(***************************************************************************)
(* SpecKey: the master admin rotates the API key while admins change the   *)
(* system prompt and a user chats                                          *)
(***************************************************************************)

NextKey ==
    \/ SendStart({3}, 2)
    \/ \E t \in tasks : SendCall(t)
    \/ \E t \in tasks : SendReturn(t, {r \in BackendOutcomes : r.shape = "blocks"})
    \/ KeyCheck({<<"b">>})
    \/ \E t \in tasks : KeyFinish(t)
    \/ PromptCheck({"p1"}, {FALSE})
    \/ \E t \in tasks : PromptFinish(t, PromptWriteOutcomes)

SpecKey == InitDeployed /\ [][NextKey]_vars

\* C22: a successful update_key leaves the system prompt in effect as it
\* was, whatever update_system_prompt calls succeeded or failed before it:
\* the messages a send would build right after it carry the same system
\* entry as right before it.
C22_KeyRotationKeepsPrompt ==
    [][(last'.cmd = "update_key" /\ last'.step = "finish" /\ last'.outcome = "ok") =>
           /\ system_prompt' = system_prompt
           /\ \A u \in Users :
                  ChatMessages(system_prompt', get_conversation(conversations', u)) =
                      ChatMessages(system_prompt, get_conversation(conversations, u))]_vars

\* C23: a send uses one visibility value throughout: the user's display
\* setting read when the send starts is the one given to the deferral, it
\* stays with the send while it is in flight, and it is the one given to
\* the final reply or failure notice, whatever settings commands ran in
\* between.
C23_OneVisibilityPerSend ==
    [][/\ (last'.cmd = "send" /\ last'.step = "defer") =>
              /\ last'.ephemeral =
                     get_ephemeral_setting(ephemeral_settings, last'.user)
              /\ \A t \in tasks' \ tasks :
                     t.id = last'.id /\ t.flag = last'.ephemeral
       /\ \A t \in tasks : \A t2 \in tasks' :
              (t.cmd = "send" /\ t2.id = t.id) => t2.flag = t.flag
       /\ (last'.cmd = "send" /\ last'.step = "respond") =>
              \A t \in tasks : t.id = last'.id => last'.ephemeral = t.flag]_vars

\* A reply sent with the visibility read at the start although the user's
\* setting has changed since
C23_Witness ==
    /\ SendAnswered /\ last.outcome = "reply"
    /\ last.ephemeral
    /\ last.user \in DOMAIN ephemeral_settings
    /\ ~get_ephemeral_setting(ephemeral_settings, last.user)

=============================================================================
